---- MODULE Spec2Model ----
(***************************************************************************)
(* Model of evil_grumbot.py: the server registry, the two resolvers, the   *)
(* bounded-retry status fetch, the response composer and the "list"        *)
(* command handler send_data.                                              *)
(*                                                                         *)
(* Three specifications share the module:                                  *)
(*   Spec         one invocation of send_data, stepped at its awaits and   *)
(*                network calls;                                           *)
(*   SpecResolve  get_server_from_channel applied to every bounded         *)
(*                registry and channel id;                                 *)
(*   SpecCompose  compose_response applied, repeatedly, to one list object.*)
(***************************************************************************)
EXTENDS Integers, Sequences, FiniteSets, TLC

\* ------------------------------------------------------------------ bounds
MaxServers == 2      \* longest registry drawn in SpecResolve
MaxChannel == 3      \* channel ids are 1..MaxChannel
MaxOnline  == 2      \* largest players.online a status reports
MaxNames   == 2      \* longest sample / query result / names argument
MaxCalls   == 2      \* calls of compose_response on one list object

\* ------------------------------------------------------- program constants
MAX_RETRIES == 5

\* Python's ``` cannot be written in a TLA+ string; ''' stands for it.
CodeFence == "'''"

ChannelNotRecognised == "**You must either select a server or be in a recognised channel**"
UnexpectedError      == "**An unexpected error occurred**"

\* ------------------------------------------------------------ input domains
ChannelIds  == 1..MaxChannel
ServerNames == <<"Survival", "Testing", "Creative">>
PlayerNames == {"Alice", "Anonymous Player"}
PlayerMax   == {20}

RECURSIVE SeqsUpTo(_, _)
SeqsUpTo(S, n) ==
    IF n = 0 THEN {<<>>}
    ELSE LET shorter == SeqsUpTo(S, n - 1)
         IN  shorter \cup {Append(s, e) : s \in {t \in shorter : Len(t) = n - 1}, e \in S}

\* class Server: name, ip (the address, not read by any decision), channels,
\* secret, supports_querying.
Server(name, channels, secret, supports_querying) ==
    [name |-> name, channels |-> channels, secret |-> secret,
     supports_querying |-> supports_querying]

NoServer == Server("", {}, FALSE, FALSE)

\* Registries of n entries; the i-th entry is named ServerNames[i], so names
\* are unique as in the source's literal. Channel sets are arbitrary (they may
\* overlap between entries); the flags are the constructor's defaults.
RegistriesOfLen(n) ==
    {[i \in 1..n |-> Server(ServerNames[i], ch[i], FALSE, TRUE)] :
        ch \in [1..n -> SUBSET ChannelIds]}

Registries == UNION {RegistriesOfLen(n) : n \in 0..MaxServers}

\* The shape of the source's registry: a public entry bound to channel 1 and
\* a secret entry bound to channel 2, with either setting of the query flag.
HandlerRegistries ==
    {<<Server("Survival", {1}, FALSE, q1), Server("Testing", {2}, TRUE, q2)>> :
        q1 \in BOOLEAN, q2 \in BOOLEAN}

\* A status response: players.online, players.max, names of players.sample.
StatusResponse(online, max, sample) ==
    [ok |-> TRUE, online |-> online, max |-> max, sample |-> sample]

None == [ok |-> FALSE]

Statuses ==
    {StatusResponse(o, m, s) : o \in 0..MaxOnline, m \in PlayerMax,
                               s \in SeqsUpTo(PlayerNames, MaxNames)}

VARIABLES
    servers,          \* the registry
    \* ---- one invocation of send_data
    pc,               \* position in send_data
    server,           \* the server option
    hidden,           \* the hidden option
    channel_id,       \* interaction.channel_id
    deferred,         \* <<>> or <<ephemeral>>: interaction.response.defer calls
    selected_server,
    count,            \* get_server_info's loop counter
    status,
    player_list,
    status_calls,     \* calls of server_lookup.status()
    query_calls,      \* calls of server_lookup.query()
    query_result,     \* what the query call produced
    replies,          \* interaction.followup.send calls
    raised,           \* exception that left send_data, or "none"
    \* ---- get_server_from_channel applied on its own
    r_channel,
    r_result,
    \* ---- compose_response applied on its own
    c_server,
    c_status,
    c_names,          \* content of the list object before the first call
    c_list,           \* content of the list object now
    c_outs            \* results of the calls so far

handlerVars == <<pc, server, hidden, channel_id, deferred, selected_server, count,
                 status, player_list, status_calls, query_calls, query_result,
                 replies, raised>>
resolveVars == <<r_channel, r_result>>
composeVars == <<c_server, c_status, c_names, c_list, c_outs>>
vars == <<servers, handlerVars, resolveVars, composeVars>>

\* --------------------------------------------------------------- resolvers
NotFound == [ok |-> FALSE, server |-> NoServer]
Found(s) == [ok |-> TRUE, server |-> s]

\* for s in servers: if channel_id in s.channels: return s
\* raise ValueError
RECURSIVE scan_channels(_, _, _)
scan_channels(reg, id, i) ==
    IF i > Len(reg) THEN NotFound
    ELSE IF id \in reg[i].channels THEN Found(reg[i])
    ELSE scan_channels(reg, id, i + 1)

\* Variant: the scan keeps going and returns the last match.
RECURSIVE scan_channels_last(_, _, _, _)
scan_channels_last(reg, id, i, best) ==
    IF i > Len(reg) THEN best
    ELSE IF id \in reg[i].channels THEN scan_channels_last(reg, id, i + 1, Found(reg[i]))
    ELSE scan_channels_last(reg, id, i + 1, best)

get_server_from_channel_last(id) == scan_channels_last(servers, id, 1, NotFound)

get_server_from_channel(id) == scan_channels(servers, id, 1)

\* for s in servers: if s.name == server: return s
\* raise ValueError
RECURSIVE scan_names(_, _, _)
scan_names(reg, name, i) ==
    IF i > Len(reg) THEN NotFound
    ELSE IF reg[i].name = name THEN Found(reg[i])
    ELSE scan_names(reg, name, i + 1)

get_server(name) == scan_names(servers, name, 1)

\* Literal["Default", *[s.name for s in servers if not s.secret]]
server_options ==
    {"Default"} \cup {servers[i].name : i \in {j \in DOMAIN servers : ~servers[j].secret}}

\* ---------------------------------------------------------------- composer
\* ', '.join(player_list)
RECURSIVE join(_, _)
join(sep, list) ==
    IF Len(list) = 0 THEN ""
    ELSE IF Len(list) = 1 THEN list[1]
    ELSE list[1] \o sep \o join(sep, Tail(list))

\* Text of the two replies compose_response builds.
NoPlayersText(srv) == "**Spooncraft " \o srv.name \o " Server**\n" \o "**No online players**"

PlayersText(srv, st, players_str) ==
    "**Spooncraft " \o srv.name \o " Server**\n" \o "**Online players ("
        \o ToString(st.online) \o "/" \o ToString(st.max) \o "):**\n"
        \o CodeFence \o players_str \o CodeFence

\* Variant: the zero-count return is taken only when no names were passed.
compose_response_zero_lists(srv, st, list) ==
    IF st.online = 0 /\ Len(list) = 0
    THEN [text |-> NoPlayersText(srv), player_list |-> list]
    ELSE LET appended == IF Len(list) = 0 /\ st.online >= 1
                             THEN Append(list, "Anonymous Player")
                         ELSE IF Len(list) < st.online THEN Append(list, "...")
                         ELSE list
         IN  [text |-> PlayersText(srv, st, join(", ", appended)),
              player_list |-> appended]

\* Variant: the second test is an `if`, not an `elif`.
compose_response_if(srv, st, list) ==
    LET first  == IF Len(list) = 0 /\ st.online >= 1
                      THEN Append(list, "Anonymous Player") ELSE list
        second == IF Len(first) < st.online THEN Append(first, "...") ELSE first
    IN  IF st.online = 0
        THEN [text |-> NoPlayersText(srv), player_list |-> list]
        ELSE [text |-> PlayersText(srv, st, join(", ", second)), player_list |-> second]

\* Variant: `<=` in place of `<` in the incompleteness test.
compose_response_le(srv, st, list) ==
    LET appended == IF Len(list) = 0 /\ st.online >= 1
                        THEN Append(list, "Anonymous Player")
                    ELSE IF Len(list) <= st.online THEN Append(list, "...")
                    ELSE list
    IN  IF st.online = 0
        THEN [text |-> NoPlayersText(srv), player_list |-> list]
        ELSE [text |-> PlayersText(srv, st, join(", ", appended)),
              player_list |-> appended]

\* The result carries the returned text and the content of the player_list
\* object when the call returns (the appends are made on the argument itself).
compose_response(srv, st, list) ==
    LET player_count == st.online
        appended     == IF Len(list) = 0 /\ player_count >= 1
                            THEN Append(list, "Anonymous Player")
                        ELSE IF Len(list) < player_count
                            THEN Append(list, "...")
                        ELSE list
        players_str  == join(", ", appended)
    IN  IF player_count = 0
        THEN [text |-> NoPlayersText(srv), player_list |-> list]
        ELSE [text |-> PlayersText(srv, st, players_str), player_list |-> appended]

\* ----------------------------------------------------------------- fetcher
\* Variant: `<=` in place of `<`.
retry_loop_continues_le(c) == c <= MAX_RETRIES

\* while count < MAX_RETRIES
retry_loop_continues(c) == c < MAX_RETRIES

\* Variant: the sample is taken unfiltered.
backup_player_list_unfiltered(st) == st.sample

\* [i.name for i in status.players.sample if i.name != "Anonymous Player"]
backup_player_list(st) == SelectSeq(st.sample, LAMBDA n : n # "Anonymous Player")

\* What server_lookup.query() produced in this invocation.
QueryResult(outcome, names) == [outcome |-> outcome, names |-> names]
NotQueried == QueryResult("not called", <<>>)

\* -------------------------------------------------------------------- Init
InitHandler ==
    /\ pc = "start"
    /\ server = "Default"
    /\ hidden = TRUE
    /\ channel_id = 1
    /\ deferred = <<>>
    /\ selected_server = NoServer
    /\ count = 0
    /\ status = None
    /\ player_list = <<>>
    /\ status_calls = 0
    /\ query_calls = 0
    /\ query_result = NotQueried
    /\ replies = <<>>
    /\ raised = "none"

InitResolve ==
    /\ r_channel = 1
    /\ r_result = <<>>

ComposeNames == PlayerNames \cup {"Bob"}

InitCompose ==
    /\ c_server = NoServer
    /\ c_status = None
    /\ c_names = <<>>
    /\ c_list = <<>>
    /\ c_outs = <<>>

Init ==
    /\ servers \in HandlerRegistries
    /\ InitHandler
    /\ InitResolve
    /\ InitCompose

\* --------------------------------------------------------------- send_data
\* Entry of send_data with its arguments, up to the first await:
\* await interaction.response.defer(ephemeral=hidden)
Defer ==
    /\ pc = "start"
    /\ \E sv \in server_options, h \in BOOLEAN, ch \in ChannelIds :
        /\ server' = sv
        /\ hidden' = h
        /\ channel_id' = ch
        /\ deferred' = Append(deferred, h)
    /\ pc' = "resolve"
    /\ UNCHANGED <<selected_server, count, status, player_list, status_calls,
                   query_calls, query_result, replies, raised>>
    /\ UNCHANGED <<servers, resolveVars, composeVars>>

\* Lines 194-203, then get_server_info up to its loop (lookup, count = 0).
Resolve ==
    /\ pc = "resolve"
    /\ LET r == IF server = "Default" THEN get_server_from_channel(channel_id)
                ELSE get_server(server)
       IN  IF r.ok
           THEN /\ selected_server' = r.server
                /\ count' = 0
                /\ pc' = "status"
                /\ UNCHANGED <<replies, raised>>
           ELSE IF server = "Default"
           THEN /\ replies' = Append(replies, ChannelNotRecognised)
                /\ pc' = "done"
                /\ UNCHANGED <<selected_server, count, raised>>
           ELSE /\ raised' = "ValueError"
                /\ pc' = "raised"
                /\ UNCHANGED <<selected_server, count, replies>>
    /\ UNCHANGED <<server, hidden, channel_id, deferred, status, player_list,
                   status_calls, query_calls, query_result>>
    /\ UNCHANGED <<servers, resolveVars, composeVars>>

\* One iteration of get_server_info's loop: server_lookup.status() returns a
\* response, times out, or fails otherwise.
StatusAttempt ==
    /\ pc = "status"
    /\ retry_loop_continues(count)
    /\ status_calls' = status_calls + 1
    /\ \/ \E st \in Statuses :
            /\ status' = st
            /\ pc' = "check"
            /\ count' = count
       \/ \E failure \in {"socket.timeout", "Exception"} :
            /\ count' = count + 1
            /\ UNCHANGED <<status, pc>>
    /\ UNCHANGED <<server, hidden, channel_id, deferred, selected_server, player_list,
                   query_calls, query_result, replies, raised>>
    /\ UNCHANGED <<servers, resolveVars, composeVars>>

\* The loop ends without a return: get_server_info returns None.
StatusExhausted ==
    /\ pc = "status"
    /\ ~retry_loop_continues(count)
    /\ status' = None
    /\ pc' = "check"
    /\ UNCHANGED <<server, hidden, channel_id, deferred, selected_server, count,
                   player_list, status_calls, query_calls, query_result, replies, raised>>
    /\ UNCHANGED <<servers, resolveVars, composeVars>>

\* Variant: after the error reply the fetch is started over instead of returning.
CheckStatus_retry ==
    /\ pc = "check"
    /\ IF status = None
       THEN /\ replies' = Append(replies, UnexpectedError)
            /\ pc' = IF Len(replies) = 0 THEN "status" ELSE "done"
            /\ count' = 0
            /\ UNCHANGED player_list
       ELSE IF status.online = 0
       THEN /\ replies' = Append(replies,
                                 compose_response(selected_server, status, <<>>).text)
            /\ pc' = "done"
            /\ UNCHANGED <<player_list, count>>
       ELSE /\ player_list' = <<>>
            /\ pc' = "players"
            /\ UNCHANGED <<replies, count>>
    /\ UNCHANGED <<server, hidden, channel_id, deferred, selected_server,
                   status, status_calls, query_calls, query_result, raised>>
    /\ UNCHANGED <<servers, resolveVars, composeVars>>

\* Lines 209-218.
CheckStatus ==
    /\ pc = "check"
    /\ IF status = None
       THEN /\ replies' = Append(replies, UnexpectedError)
            /\ pc' = "done"
            /\ UNCHANGED player_list
       ELSE IF status.online = 0
       THEN /\ replies' = Append(replies,
                                 compose_response(selected_server, status, <<>>).text)
            /\ pc' = "done"
            /\ UNCHANGED player_list
       ELSE /\ player_list' = <<>>
            /\ pc' = "players"
            /\ UNCHANGED replies
    /\ UNCHANGED <<server, hidden, channel_id, deferred, selected_server, count,
                   status, status_calls, query_calls, query_result, raised>>
    /\ UNCHANGED <<servers, resolveVars, composeVars>>

\* Variant: the query is made whatever supports_querying says.
QueryPlayers_unconditional ==
    /\ pc = "players"
    /\ query_calls' = query_calls + 1
    /\ \/ \E names \in SeqsUpTo(PlayerNames, MaxNames) :
            /\ player_list' = names
            /\ query_result' = QueryResult("names", names)
            /\ pc' = "send"
            /\ UNCHANGED raised
       \/ /\ query_result' = QueryResult("socket.timeout", <<>>)
          /\ pc' = "send"
          /\ UNCHANGED <<player_list, raised>>
       \/ /\ query_result' = QueryResult("Exception", <<>>)
          /\ raised' = "Exception"
          /\ pc' = "raised"
          /\ UNCHANGED player_list
    /\ UNCHANGED <<server, hidden, channel_id, deferred, selected_server, count,
                   status, status_calls, replies>>
    /\ UNCHANGED <<servers, resolveVars, composeVars>>

\* Lines 219-224: the enhanced query, which returns names, times out (caught)
\* or fails otherwise (no handler: the exception leaves send_data).
QueryPlayers ==
    /\ pc = "players"
    /\ IF selected_server.supports_querying
       THEN /\ query_calls' = query_calls + 1
            /\ \/ \E names \in SeqsUpTo(PlayerNames, MaxNames) :
                    /\ player_list' = names
                    /\ query_result' = QueryResult("names", names)
                    /\ pc' = "send"
                    /\ UNCHANGED raised
               \/ /\ query_result' = QueryResult("socket.timeout", <<>>)
                  /\ pc' = "send"
                  /\ UNCHANGED <<player_list, raised>>
               \/ /\ query_result' = QueryResult("Exception", <<>>)
                  /\ raised' = "Exception"
                  /\ pc' = "raised"
                  /\ UNCHANGED player_list
       ELSE /\ pc' = "send"
            /\ UNCHANGED <<player_list, query_calls, query_result, raised>>
    /\ UNCHANGED <<server, hidden, channel_id, deferred, selected_server, count,
                   status, status_calls, replies>>
    /\ UNCHANGED <<servers, resolveVars, composeVars>>

\* Lines 225-230.
SendSummary ==
    /\ pc = "send"
    /\ LET names == IF Len(player_list) = 0 THEN backup_player_list(status)
                    ELSE player_list
           out   == compose_response(selected_server, status, names)
       IN  /\ player_list' = out.player_list
           /\ replies' = Append(replies, out.text)
    /\ pc' = "done"
    /\ UNCHANGED <<server, hidden, channel_id, deferred, selected_server, count,
                   status, status_calls, query_calls, query_result, raised>>
    /\ UNCHANGED <<servers, resolveVars, composeVars>>

Next ==
    \/ Defer
    \/ Resolve
    \/ StatusAttempt
    \/ StatusExhausted
    \/ CheckStatus
    \/ QueryPlayers
    \/ SendSummary

Spec == Init /\ [][Next]_vars

\* ------------------------------------------ get_server_from_channel alone
InitResolveSpec ==
    /\ servers \in Registries
    /\ InitHandler
    /\ InitResolve
    /\ InitCompose

ResolveCall ==
    /\ r_result = <<>>
    /\ \E id \in ChannelIds :
        /\ r_channel' = id
        /\ r_result' = <<get_server_from_channel(id)>>
    /\ UNCHANGED <<servers, handlerVars, composeVars>>

SpecResolve == InitResolveSpec /\ [][ResolveCall]_vars

\* ------------------------------------------------- compose_response alone
ComposeServers == {Server(ServerNames[i], {i}, FALSE, TRUE) : i \in 1..2}

ComposeStatuses ==
    {StatusResponse(o, m, <<>>) : o \in 0..(MaxOnline + 1), m \in PlayerMax}

InitComposeSpec ==
    /\ servers = <<>>
    /\ InitHandler
    /\ InitResolve
    /\ c_server \in ComposeServers
    /\ c_status \in ComposeStatuses
    /\ c_names \in SeqsUpTo(ComposeNames, MaxNames)
    /\ c_list = c_names
    /\ c_outs = <<>>

\* One call compose_response(c_server, c_status, the list object).
ComposeCall ==
    /\ Len(c_outs) < MaxCalls
    /\ LET out == compose_response(c_server, c_status, c_list)
       IN  /\ c_outs' = Append(c_outs, out)
           /\ c_list' = out.player_list
    /\ UNCHANGED <<c_server, c_status, c_names>>
    /\ UNCHANGED <<servers, handlerVars, resolveVars>>

SpecCompose == InitComposeSpec /\ [][ComposeCall]_vars

\* ================================================================= claims
Range(f) == {f[i] : i \in DOMAIN f}

\* send_data has returned or an exception has left it.
Ended == pc \in {"done", "raised"}

\* C1: every invocation of send_data ends with a textual reply sent to the
\* user; no failure leaves the handler as an exception.
C1_AlwaysReplies ==
    /\ raised = "none"
    /\ pc # "raised"
    /\ pc = "done" => Len(replies) = 1

\* C2: get_server_info stops at its first successful attempt and never makes
\* more than 5 attempts; when every attempt fails it makes exactly 5 attempts
\* and returns None without raising.
C2_RetryBound ==
    /\ status_calls <= 5
    /\ pc = "status" => status_calls = count
    /\ (pc \in {"check", "players", "send"} \/ (Ended /\ selected_server # NoServer)) =>
         IF status = None
         THEN status_calls = 5 /\ count = 5 /\ raised = "none"
         ELSE status_calls = count + 1 /\ status_calls <= 5

C2_Witness == pc = "done" /\ status = None /\ status_calls = 5

\* C3: when get_server_info has returned None the handler's next step sends
\* the unexpected-error message and ends the invocation, and once that message
\* has been sent no status attempt, no query and no further reply is made.
C3_UnavailableTerminates ==
    [][/\ (pc = "check" /\ status = None) =>
             /\ replies' = <<"**An unexpected error occurred**">>
             /\ pc' = "done"
             /\ query_calls' = 0
       /\ "**An unexpected error occurred**" \in Range(replies) =>
             /\ pc = "done"
             /\ status_calls' = status_calls
             /\ query_calls' = query_calls
             /\ replies' = replies]_vars

C3_Witness ==
    /\ pc = "done"
    /\ status = None
    /\ status_calls = 5
    /\ query_calls = 0
    /\ replies = <<"**An unexpected error occurred**">>
    /\ selected_server.supports_querying

\* C4: get_server_from_channel returns the first entry in registry order whose
\* channels contain the id, and fails (ValueError) when no entry's channels
\* contain it; it never returns an entry that does not contain the id.
C4_Matches == {i \in DOMAIN servers : r_channel \in servers[i].channels}

C4_FirstMatch ==
    r_result # <<>> =>
        IF C4_Matches = {}
        THEN ~r_result[1].ok
        ELSE /\ r_result[1].ok
             /\ r_channel \in r_result[1].server.channels
             /\ \E i \in C4_Matches :
                    /\ \A j \in C4_Matches : i <= j
                    /\ r_result[1].server = servers[i]

C4_Witness ==
    /\ r_result # <<>>
    /\ r_result[1].ok
    /\ Cardinality(C4_Matches) >= 2
    /\ r_result[1].server = servers[1]

\* C5: two calls of compose_response with the same arguments return the same
\* text, and a call leaves the names list it was given as it was.
C5_Idempotent ==
    /\ Len(c_outs) >= 1 => c_list = c_names
    /\ Len(c_outs) >= 2 => c_outs[2].text = c_outs[1].text

\* C6: with players.online = 0 compose_response returns the header followed by
\* "No online players", whatever the names list holds, and lists no name.
C6_ZeroOnline ==
    \A k \in DOMAIN c_outs :
        c_status.online = 0 =>
            /\ c_outs[k].text =
                 "**Spooncraft " \o c_server.name \o " Server**\n**No online players**"
            /\ c_outs[k].player_list = c_names

C6_Witness ==
    /\ Len(c_outs) >= 1
    /\ c_status.online = 0
    /\ Len(c_names) = MaxNames

\* C7: with an empty names list and players.online >= 1 the name list of the
\* output is exactly one "Anonymous Player" entry.
C7_AnonymousOnce ==
    (Len(c_outs) >= 1 /\ c_names = <<>> /\ c_status.online >= 1) =>
        /\ c_outs[1].player_list = <<"Anonymous Player">>
        /\ c_outs[1].text =
             "**Spooncraft " \o c_server.name \o " Server**\n**Online players ("
                 \o ToString(c_status.online) \o "/" \o ToString(c_status.max)
                 \o "):**\n" \o CodeFence \o "Anonymous Player" \o CodeFence

C7_Witness ==
    /\ Len(c_outs) >= 1
    /\ c_names = <<>>
    /\ c_status.online > 1

\* C8: with 0 < len(names) < players.online the name list of the output is the
\* names in order followed by a final "..." entry; with len(names) >=
\* players.online no "..." entry is added.
C8_Body(names_out) ==
    "**Spooncraft " \o c_server.name \o " Server**\n**Online players ("
        \o ToString(c_status.online) \o "/" \o ToString(c_status.max)
        \o "):**\n" \o CodeFence \o join(", ", names_out) \o CodeFence

C8_Ellipsis ==
    Len(c_outs) >= 1 =>
        /\ (0 < Len(c_names) /\ Len(c_names) < c_status.online) =>
              /\ c_outs[1].player_list = c_names \o <<"...">>
              /\ c_outs[1].text = C8_Body(c_names \o <<"...">>)
        /\ (Len(c_names) >= c_status.online) =>
              /\ c_outs[1].player_list = c_names
              /\ c_status.online >= 1 => c_outs[1].text = C8_Body(c_names)
        /\ (c_names = <<"Alice", "Bob">> /\ c_status.online = 3
                /\ c_status.max = 20 /\ c_server.name = "Survival") =>
              c_outs[1].text =
                "**Spooncraft Survival Server**\n**Online players (3/20):**\n"
                    \o CodeFence \o "Alice, Bob, ..." \o CodeFence

C8_Witness ==
    /\ Len(c_outs) >= 1
    /\ c_names = <<"Alice", "Bob">>
    /\ c_status.online = 3
    /\ c_server.name = "Survival"

\* C9: in one invocation the enhanced query is attempted at most once, only
\* after the deferred acknowledgement, only after a status fetch that succeeded
\* and reported players.online >= 1, and only when the selected server's
\* supports_querying flag is true.
C9_QueryGuarded ==
    /\ query_calls <= 1
    /\ query_calls >= 1 =>
          /\ Len(deferred) = 1
          /\ status # None
          /\ status.online >= 1
          /\ selected_server.supports_querying
    /\ (Ended /\ status # None /\ (status.online = 0 \/ ~selected_server.supports_querying))
          => query_calls = 0

C9_Witness ==
    /\ pc = "done"
    /\ query_calls = 1
    /\ query_result.outcome = "names"

\* C10: with players.online >= 1, when the name list after the query step is
\* empty (query unsupported, timed out, or returned no names) the summary is
\* composed from the status sample, in order, without the entries equal to
\* "Anonymous Player"; when the query returned a non-empty list the summary is
\* composed from exactly that list. The summary is sent in both cases.
C10_Used ==
    IF query_result.outcome = "names" /\ query_result.names # <<>>
    THEN query_result.names
    ELSE SelectSeq(status.sample, LAMBDA n : n # "Anonymous Player")

C10_Fallback ==
    (pc = "done" /\ status # None /\ status.online >= 1) =>
        /\ query_result.outcome \in {"not called", "socket.timeout", "names"}
        /\ replies = <<compose_response(selected_server, status, C10_Used).text>>

C10_Witness ==
    /\ pc = "done"
    /\ query_result.outcome = "socket.timeout"
    /\ status # None
    /\ status.online = 2
    /\ status.sample = <<"Anonymous Player", "Alice">>
    /\ Len(replies) = 1

====
